---- MODULE Spec2Model ----
(***************************************************************************)
(* Model of src/app.py: the "Substack Proxy" FastAPI application.          *)
(*                                                                         *)
(* Strings are sequences of tokens (each token stands for the characters   *)
(* it spells), Optional[...] values are sequences of length 0 (None) or 1, *)
(* a parsed HTML document is a forest of nodes.                            *)
(***************************************************************************)
EXTENDS Integers, Sequences, FiniteSets, TLC

VARIABLES st, exIn, exOut

vars == <<st, exIn, exOut>>

-----------------------------------------------------------------------------
(* Optional values and small helpers *)

None == <<>>

Some(x) == <<x>>

IsNone(o) == Len(o) = 0

Get(o) == o[1]

\* Python truthiness of an Optional[str]: None and "" are falsy
Truthy(o) == Len(o) = 1 /\ Len(o[1]) > 0

\* Python's `a or b` on Optional[str] operands
OrElse(a, b) == IF Truthy(a) THEN a ELSE b

SeqsUpTo(S, n) == UNION {[1..k -> S] : k \in 0..n}

MinOf(S) == CHOOSE x \in S : \A y \in S : x <= y

-----------------------------------------------------------------------------
(* Bounds *)

MaxTop == 2

MaxKids == 1

MaxQuery == 3

-----------------------------------------------------------------------------
(* HTML documents as BeautifulSoup(html, "html.parser") exposes them *)

Whitespace == {" ", "\n"}

TextNode(s) == [tag |-> "#text", str |-> s, src |-> None, kids |-> <<>>]

ImgNode(src) == [tag |-> "img", str |-> <<>>, src |-> src, kids |-> <<>>]

Element(tag, kids) == [tag |-> tag, str |-> <<>>, src |-> None, kids |-> kids]

\* document order (pre-order) of all nodes of a forest
RECURSIVE Preorder(_)
Preorder(forest) ==
  IF forest = <<>> THEN <<>>
  ELSE <<Head(forest)>> \o Preorder(Head(forest).kids) \o Preorder(Tail(forest))

\* soup.find(tag) / tag.find(tag): first matching descendant, or None
Find(forest, tag) ==
  LET p == Preorder(forest)
      hits == {i \in DOMAIN p : p[i].tag = tag}
  IN IF hits = {} THEN None ELSE Some(p[MinOf(hits)])

\* Tag.string: the single NavigableString child, looked up through single
\* child tags; None when the tag has zero or several children
RECURSIVE StringOf(_)
StringOf(node) ==
  IF Len(node.kids) # 1 THEN None
  ELSE IF node.kids[1].tag = "#text" THEN Some(node.kids[1].str)
  ELSE StringOf(node.kids[1])

RECURSIVE LStrip(_)
LStrip(s) == IF s # <<>> /\ Head(s) \in Whitespace THEN LStrip(Tail(s)) ELSE s

RECURSIVE RStrip(_)
RStrip(s) ==
  IF s # <<>> /\ s[Len(s)] \in Whitespace THEN RStrip(SubSeq(s, 1, Len(s) - 1)) ELSE s

\* str.strip()
Strip(s) == RStrip(LStrip(s))

\* the stripped, non-empty strings of a forest in document order
RECURSIVE StrippedStrings(_)
StrippedStrings(nodes) ==
  IF nodes = <<>> THEN <<>>
  ELSE LET n == Head(nodes)
           rest == StrippedStrings(Tail(nodes))
       IN IF n.tag = "#text" /\ Strip(n.str) # <<>> THEN <<Strip(n.str)>> \o rest ELSE rest

RECURSIVE Join(_)
Join(strs) ==
  IF strs = <<>> THEN <<>>
  ELSE IF Len(strs) = 1 THEN strs[1]
  ELSE strs[1] \o <<"\n">> \o Join(Tail(strs))

\* get_text("\n", strip=True) over the descendants of a forest
GetText(forest) == Join(StrippedStrings(Preorder(forest)))

\* the text of an element: its strings in document order, concatenated
RECURSIVE Concat(_)
Concat(strs) == IF strs = <<>> THEN <<>> ELSE Head(strs) \o Concat(Tail(strs))

TitleText(node) ==
  LET p == Preorder(node.kids)
      texts == {i \in DOMAIN p : p[i].tag = "#text"}
  IN Concat([i \in 1..Len(p) |-> IF i \in texts THEN p[i].str ELSE <<>>])

\* variant: `if soup.title` without the test of soup.title.string
TitleGuardLoose(doc) == ~IsNone(Find(doc, "title"))

\* the condition of line 40: soup.title and soup.title.string
TitleGuard(doc) ==
  /\ ~IsNone(Find(doc, "title"))
  /\ Truthy(StringOf(Get(Find(doc, "title"))))

\* soup.title.string.strip() is evaluated on None: AttributeError
TitleRaises(doc) ==
  /\ TitleGuard(doc)
  /\ \/ IsNone(Find(doc, "title"))
     \/ IsNone(StringOf(Get(Find(doc, "title"))))

\* title = soup.title.string.strip() if soup.title and soup.title.string else None
TitleGuess(doc) ==
  IF TitleGuard(doc) /\ ~TitleRaises(doc)
  THEN Some(Strip(Get(StringOf(Get(Find(doc, "title"))))))
  ELSE None

\* variant: <main> is preferred to <article>
ContentRegionMainFirst(doc) ==
  IF ~IsNone(Find(doc, "main")) THEN Find(doc, "main")
  ELSE IF ~IsNone(Find(doc, "article")) THEN Find(doc, "article")
  ELSE Find(doc, "body")

\* article = soup.find("article") or soup.find("main") or soup.body
ContentRegion(doc) ==
  IF ~IsNone(Find(doc, "article")) THEN Find(doc, "article")
  ELSE IF ~IsNone(Find(doc, "main")) THEN Find(doc, "main")
  ELSE Find(doc, "body")

\* variant: the image is looked up in the whole document only
HeroImageDocOnly(doc) ==
  LET img == Find(doc, "img")
  IN IF ~IsNone(img) /\ Truthy(Get(img).src) THEN Get(img).src ELSE None

\* img = (article and article.find("img")) or soup.find("img")
\* hero = img.get("src") if img and img.get("src") else None
HeroImage(doc) ==
  LET article == ContentRegion(doc)
      inner == IF IsNone(article) THEN None ELSE Find(Get(article).kids, "img")
      img == IF ~IsNone(inner) THEN inner ELSE Find(doc, "img")
  IN IF ~IsNone(img) /\ Truthy(Get(img).src) THEN Get(img).src ELSE None

\* text = article.get_text("\n", strip=True) if article else soup.get_text("\n", strip=True)
BodyText(doc) ==
  LET article == ContentRegion(doc)
  IN IF ~IsNone(article) THEN GetText(Get(article).kids) ELSE GetText(doc)

\* `raised` tells that the call ended in an exception instead of a result
_readability_extract(doc) ==
  [text |-> BodyText(doc), title |-> TitleGuess(doc), hero |-> HeroImage(doc),
   raised |-> TitleRaises(doc)]

-----------------------------------------------------------------------------
(* Root endpoint: redirect target and the query string /post receives *)

HexDigits == {"0", "2", "a"}

\* starlette's RedirectResponse: quote(url, safe=":/%#?=@[]!$&'()*+,;")
QuoteChar(c) == IF c = " " THEN <<"%", "2", "0">> ELSE <<c>>

RECURSIVE Quote(_)
Quote(s) == IF s = <<>> THEN <<>> ELSE QuoteChar(Head(s)) \o Quote(Tail(s))

\* f"/post?url={q}" as written to the Location header
RedirectTarget(q) == Quote(<<"/post", "?", "url", "=">> \o q)

Positions(s, c) == {i \in DOMAIN s : s[i] = c}

BeforeFirst(s, c) ==
  IF Positions(s, c) = {} THEN s ELSE SubSeq(s, 1, MinOf(Positions(s, c)) - 1)

AfterFirst(s, c) ==
  IF Positions(s, c) = {} THEN <<>> ELSE SubSeq(s, MinOf(Positions(s, c)) + 1, Len(s))

\* the character a percent-escape decodes to (bytes that are not UTF-8
\* decode to the replacement character)
EscapedChar(h1, h2) ==
  CASE h1 = "2" /\ h2 = "0" -> " "
    [] h1 = "2" /\ h2 = "2" -> "\""
    [] h1 = "2" /\ h2 = "a" -> "*"
    [] h1 = "0" /\ h2 = "a" -> "\n"
    [] h1 = "0" /\ h2 = "0" -> "NUL"
    [] h1 = "0" /\ h2 = "2" -> "STX"
    [] OTHER -> "U+FFFD"

\* urllib.parse.unquote_plus, as parse_qsl applies it to names and values
RECURSIVE UnquotePlus(_)
UnquotePlus(s) ==
  IF s = <<>> THEN <<>>
  ELSE IF s[1] = "+" THEN <<" ">> \o UnquotePlus(Tail(s))
  ELSE IF s[1] = "%" /\ Len(s) >= 3 /\ s[2] \in HexDigits /\ s[3] \in HexDigits
       THEN <<EscapedChar(s[2], s[3])>> \o UnquotePlus(SubSeq(s, 4, Len(s)))
  ELSE <<s[1]>> \o UnquotePlus(Tail(s))

\* the value of parameter `name` in a query string (the last pair naming it
\* wins), None when no pair names it
RECURSIVE QueryParam(_, _)
QueryParam(query, name) ==
  IF query = <<>> THEN None
  ELSE LET pair == BeforeFirst(query, "&")
           later == QueryParam(AfterFirst(query, "&"), name)
       IN IF ~IsNone(later) THEN later
          ELSE IF pair # <<>> /\ UnquotePlus(BeforeFirst(pair, "=")) = name
               THEN Some(UnquotePlus(AfterFirst(pair, "=")))
          ELSE None

\* the request line a client sends when it follows a Location header: the
\* fragment stays with the client
TargetPath(location) == BeforeFirst(BeforeFirst(location, "#"), "?")

TargetQuery(location) == AfterFirst(BeforeFirst(location, "#"), "?")

\* the `url` parameter the handler of the redirect target is called with
ForwardedUrl(location) == QueryParam(TargetQuery(location), <<"url">>)

-----------------------------------------------------------------------------
(* URLs, digests, error messages *)

\* urlparse(u).hostname of <<scheme, host, ..>>: the host without the port
Hostname(u) == IF Len(u) >= 2 THEN Some(<<u[2]>>) ELSE None

\* urlparse(u).netloc: host and port
Netloc(u) == IF Len(u) >= 3 /\ u[3] \in {":8443"} THEN Some(<<u[2], u[3]>>) ELSE Hostname(u)

\* hashlib.sha256(text.encode("utf-8")).hexdigest()
Sha256Hex(text) ==
  CASE text = <<"Hello">> ->
         <<"185f8db32271fe25f561a6fc938b2e264306ec304eda518007d1764826381969">>
    [] text = <<"World">> ->
         <<"78ae647dc5544d227130a0682a51e30bc7777fbb6d8a8f17007463a3ecd1d524">>
    [] text = <<"T", "\n", "Hello">> ->
         <<"49668d303b69f22585a8ad9ebbbc116985d89b2ab8a9cd7180f1a0759e7db927">>
    [] text = <<"Hello", "\n", "World">> ->
         <<"35c6b9f66dceb6cf8f733d08689564e420e18eb40250d9435352617c027f36d6">>
    [] text = <<>> ->
         <<"e3b0c44298fc1c149afbf4c8996fb92427ae41e4649b934ca495991b7852b855">>

\* variant: `if text is not None` in place of `if text`
ContentHashUnguarded(text) == IF IsNone(text) THEN None ELSE Some(Sha256Hex(Get(text)))

\* sha = hashlib.sha256(...).hexdigest() if text else None
ContentHash(text) == IF Truthy(text) THEN Some(Sha256Hex(Get(text))) ELSE None

\* str(e) of httpx.HTTPStatusError raised by r.raise_for_status()
StatusMessage(status) ==
  IF status < 500 THEN <<"Client error '", ToString(status), "' for url">>
  ELSE <<"Server error '", ToString(status), "' for url">>

\* Response.raise_for_status() raises unless the status is 2xx
IsSuccess(status) == status >= 200 /\ status <= 299

-----------------------------------------------------------------------------
(* Inputs the collaborators can produce *)

\* request slots the framework handles concurrently
Reqs == {1, 2}

\* values of the `url` query parameter of /post
InputUrls == {<<"http://", "short.example", "/x">>, <<"https://", "blog.example", ":8443", "/p/one">>}

\* where following redirects can land
ResolvedUrls ==
  {<<"https://", "blog.example", ":8443", "/p/one">>, <<"https://", "pub.substack.com", "/p/one">>}

NormalizeErrors == {<<"timed out">>}

ProviderErrors == {<<"Invalid Substack URL">>, <<>>}

ValidationMessage == <<"1 validation error for PostOut">>

TransportErrors == {<<"connection reset">>}

ParserMessage == <<"ParserRejectedMarkup">>

AttributeMessage == <<"'NoneType' object has no attribute 'strip'">>

Statuses == {200, 404, 503}

SpecExample ==
  <<Element("html",
      <<Element("head", <<Element("title", <<TextNode(<<" ", "T", " ">>)>>)>>),
        Element("body",
          <<Element("article",
              <<ImgNode(Some(<<"/h.png">>)), Element("p", <<TextNode(<<"Hello">>)>>)>>)>>)>>)>>

BlankTitlePage ==
  <<Element("title", <<TextNode(<<" ">>)>>), Element("body", <<TextNode(<<"World", "\n">>)>>)>>

BareFragment == <<Element("title", <<TextNode(<<"T">>)>>), TextNode(<<"Hello">>)>>

EmptyPage == <<>>

\* bodies the fallback fetch can return
FetchedDocs == {SpecExample, BlankTitlePage, BareFragment, EmptyPage}

\* what get_metadata() / get_content() of the provider can return; `typed`
\* is FALSE when some value is not a string, which PostOut(...) rejects
TypedResults ==
  [canonical_url : {None, Some(<<>>), Some(<<"https://", "pub.substack.com", "/p/one">>)},
   title : {Some(<<"T">>)},
   author : {None, Some(<<"Ann">>)},
   publication : {Some(<<"Pub">>)},
   published_at : {None},
   hero_image : {Some(<<"/h.png">>)},
   html : {Some(SpecExample)},
   text : {None, Some(<<>>), Some(<<"Hello">>), Some(<<"World">>)},
   typed : {TRUE}]

UntypedResults ==
  [canonical_url : {None},
   title : {Some(<<"T">>)},
   author : {Some(<<"Ann">>)},
   publication : {Some(<<"Pub">>)},
   published_at : {None},
   hero_image : {Some(<<"/h.png">>)},
   html : {Some(SpecExample)},
   text : {Some(<<"Hello">>)},
   typed : {FALSE}]

ProviderResults == TypedResults \cup UntypedResults

\* what client.get(final_url) of the fallback can return
FetchResults ==
  [status : {200}, url : ResolvedUrls, body : FetchedDocs, parseable : {TRUE}]
    \cup [status : Statuses, url : ResolvedUrls, body : {EmptyPage}, parseable : BOOLEAN]

-----------------------------------------------------------------------------
(* Responses *)

NoResponse ==
  [status |-> 0, url |-> <<>>, canonical_url |-> None, title |-> None, author |-> None,
   publication |-> None, published_at |-> None, hero_image |-> None, html |-> None,
   text |-> None, sha256 |-> None, source |-> "", detail |-> <<>>, location |-> <<>>,
   ok |-> FALSE, routes |-> <<>>]

\* raise HTTPException(status_code=..., detail=...)
HTTPException(status_code, detail) ==
  [NoResponse EXCEPT !.status = status_code, !.detail = detail]

\* variant: the author is read under a key the metadata does not have
StructuredPostNoAuthor(final_url, p) ==
  [NoResponse EXCEPT
     !.status = 200,
     !.url = final_url,
     !.canonical_url = OrElse(p.canonical_url, Some(final_url)),
     !.title = p.title,
     !.author = None,
     !.publication = p.publication,
     !.published_at = p.published_at,
     !.hero_image = p.hero_image,
     !.html = p.html,
     !.text = p.text,
     !.sha256 = ContentHash(p.text),
     !.source = "substack_api"]

\* variant: canonical_url without the `or final_url`
StructuredPostNoDefault(final_url, p) ==
  [NoResponse EXCEPT
     !.status = 200,
     !.url = final_url,
     !.canonical_url = p.canonical_url,
     !.title = p.title,
     !.author = p.author,
     !.publication = p.publication,
     !.published_at = p.published_at,
     !.hero_image = p.hero_image,
     !.html = p.html,
     !.text = p.text,
     !.sha256 = ContentHash(p.text),
     !.source = "substack_api"]

\* PostOut(...) of the structured path
StructuredPost(final_url, p) ==
  [NoResponse EXCEPT
     !.status = 200,
     !.url = final_url,
     !.canonical_url = OrElse(p.canonical_url, Some(final_url)),
     !.title = p.title,
     !.author = p.author,
     !.publication = p.publication,
     !.published_at = p.published_at,
     !.hero_image = p.hero_image,
     !.html = p.html,
     !.text = p.text,
     !.sha256 = ContentHash(p.text),
     !.source = "substack_api"]

\* variant: publication taken from netloc (host and port) instead of hostname
GenericPostNetloc(final_url, r) ==
  LET ex == _readability_extract(r.body)
  IN [NoResponse EXCEPT
        !.status = 200,
        !.url = final_url,
        !.canonical_url = Some(r.url),
        !.title = ex.title,
        !.author = None,
        !.publication = Netloc(r.url),
        !.published_at = None,
        !.hero_image = ex.hero,
        !.html = Some(r.body),
        !.text = Some(ex.text),
        !.sha256 = ContentHash(Some(ex.text)),
        !.source = "generic-fetch"]

\* variant: the fallback record carries the tag of the structured path
GenericPostMistagged(final_url, r) ==
  LET ex == _readability_extract(r.body)
  IN [NoResponse EXCEPT
        !.status = 200,
        !.url = final_url,
        !.canonical_url = Some(r.url),
        !.title = ex.title,
        !.author = None,
        !.publication = Hostname(r.url),
        !.published_at = None,
        !.hero_image = ex.hero,
        !.html = Some(r.body),
        !.text = Some(ex.text),
        !.sha256 = ContentHash(Some(ex.text)),
        !.source = "substack_api"]

\* PostOut(...) of the fallback path
GenericPost(final_url, r) ==
  LET ex == _readability_extract(r.body)
  IN [NoResponse EXCEPT
        !.status = 200,
        !.url = final_url,
        !.canonical_url = Some(r.url),
        !.title = ex.title,
        !.author = None,
        !.publication = Hostname(r.url),
        !.published_at = None,
        !.hero_image = ex.hero,
        !.html = Some(r.body),
        !.text = Some(ex.text),
        !.sha256 = ContentHash(Some(ex.text)),
        !.source = "generic-fetch"]

\* variant: the cause is left out of the detail
NormalizeFailureBare(e) == HTTPException(502, <<"URL normalize failed">>)

NormalizeFailure(e) == HTTPException(502, <<"URL normalize failed: ">> \o e)

\* variant: only the fallback cause is reported
CombinedFailureLast(e, e2) == HTTPException(502, <<"fallback fetch failed: ">> \o e2)

CombinedFailure(e, e2) ==
  HTTPException(502, <<"substack_api failed: ">> \o e \o <<"; fallback fetch failed: ">> \o e2)

\* RedirectResponse(url=f"/post?url={q}")
RedirectResponse(q) == [NoResponse EXCEPT !.status = 307, !.location = RedirectTarget(q)]

Descriptor ==
  [NoResponse EXCEPT !.status = 200, !.ok = TRUE, !.routes = <<"/", "/healthz", "/post">>]

Healthy == [NoResponse EXCEPT !.status = 200, !.ok = TRUE]

ValidationFailure == HTTPException(422, <<"Field required">>)

-----------------------------------------------------------------------------
(* Requests *)

\* the n-th httpx.Client(...) object that request r constructs
NewClient(r, n) == <<r, n>>

NoCalls == [canon |-> 0, structured |-> 0, fetch |-> 0, extract |-> 0]

Idle ==
  [pc |-> "idle", route |-> "", url |-> None, final_url |-> None, ne |-> None, e |-> None,
   e2 |-> None, provided |-> None, fetched |-> None, head_status |-> 0, held |-> 0, open |-> {}, used |-> {},
   calls |-> NoCalls, resp |-> NoResponse]

Init ==
  /\ st = [r \in Reqs |-> Idle]
  /\ exIn = EmptyPage
  /\ exOut = None

\* def root(request): q = request.query_params.get("url")
root(r, q) ==
  /\ st[r].pc = "idle"
  /\ st' = [st EXCEPT ![r] = [st[r] EXCEPT !.pc = "done", !.route = "/", !.url = q,
                                       !.resp = IF Truthy(q) THEN RedirectResponse(Get(q))
                                                ELSE Descriptor]]
  /\ UNCHANGED <<exIn, exOut>>

healthz(r) ==
  /\ st[r].pc = "idle"
  /\ st' = [st EXCEPT ![r] = [st[r] EXCEPT !.pc = "done", !.route = "/healthz", !.resp = Healthy]]
  /\ UNCHANGED <<exIn, exOut>>

\* variant: `url` declared optional, the handler runs with url = None
get_post_optional(r) ==
  /\ st[r].pc = "idle"
  /\ st' = [st EXCEPT ![r] = [st[r] EXCEPT !.pc = "canonicalizing", !.route = "/post",
                                       !.held = @ + 1,
                                       !.open = @ \cup {NewClient(r, 1)},
                                       !.used = @ \cup {NewClient(r, 1)},
                                       !.calls.canon = @ + 1]]
  /\ UNCHANGED <<exIn, exOut>>

\* /post without the required `url` parameter: rejected before get_post runs
get_post_unvalidated(r) ==
  /\ st[r].pc = "idle"
  /\ st' = [st EXCEPT ![r] = [st[r] EXCEPT !.pc = "done", !.route = "/post",
                                       !.resp = ValidationFailure]]
  /\ UNCHANGED <<exIn, exOut>>

\* get_post(url) up to client.get(url): the client is open, the GET in flight
get_post(r, url) ==
  /\ st[r].pc = "idle"
  /\ st' = [st EXCEPT ![r] = [st[r] EXCEPT !.pc = "canonicalizing", !.route = "/post",
                                       !.url = Some(url), !.held = @ + 1,
                                       !.open = @ \cup {NewClient(r, 1)},
                                       !.used = @ \cup {NewClient(r, 1)},
                                       !.calls.canon = @ + 1]]
  /\ UNCHANGED <<exIn, exOut>>

\* variant: head.raise_for_status() is called on the canonicalization response
NormalizeReturnsChecked(r, final_url, status) ==
  /\ st[r].pc = "canonicalizing"
  /\ st' = [st EXCEPT ![r] =
              IF IsSuccess(status)
              THEN [st[r] EXCEPT !.pc = "structured", !.final_url = Some(final_url),
                                 !.head_status = status, !.held = @ - 1,
                                 !.open = @ \ {NewClient(r, 1)},
                                 !.calls.structured = @ + 1]
              ELSE [st[r] EXCEPT !.pc = "done", !.ne = Some(StatusMessage(status)),
                                 !.head_status = status, !.held = @ - 1,
                                 !.open = @ \ {NewClient(r, 1)},
                                 !.resp = NormalizeFailure(StatusMessage(status))]]
  /\ UNCHANGED <<exIn, exOut>>

\* head = client.get(url) answered with `status` at final_url;
\* final_url = str(head.url); the with block closes
NormalizeReturns(r, final_url, status) ==
  /\ st[r].pc = "canonicalizing"
  /\ st' = [st EXCEPT ![r] = [st[r] EXCEPT !.pc = "structured", !.final_url = Some(final_url),
                                       !.head_status = status,
                                       !.held = @ - 1, !.open = @ \ {NewClient(r, 1)},
                                       !.calls.structured = @ + 1]]
  /\ UNCHANGED <<exIn, exOut>>

\* variant: the exception is swallowed and the raw url is used
NormalizeRaisesContinues(r, e) ==
  /\ st[r].pc = "canonicalizing"
  /\ st' = [st EXCEPT ![r] = [st[r] EXCEPT !.pc = "structured", !.ne = Some(e),
                                       !.final_url = st[r].url, !.held = @ - 1,
                                       !.open = @ \ {NewClient(r, 1)}, !.calls.structured = @ + 1]]
  /\ UNCHANGED <<exIn, exOut>>

\* variant: the client is not closed when the GET raises
NormalizeRaisesLeaks(r, e) ==
  /\ st[r].pc = "canonicalizing"
  /\ st' = [st EXCEPT ![r] = [st[r] EXCEPT !.pc = "done", !.ne = Some(e),
                                       !.resp = NormalizeFailure(e)]]
  /\ UNCHANGED <<exIn, exOut>>

\* except Exception as e: raise HTTPException(502, "URL normalize failed: ...")
NormalizeRaises(r, e) ==
  /\ st[r].pc = "canonicalizing"
  /\ st' = [st EXCEPT ![r] = [st[r] EXCEPT !.pc = "done", !.ne = Some(e),
                                       !.held = @ - 1, !.open = @ \ {NewClient(r, 1)},
                                       !.resp = NormalizeFailure(e)]]
  /\ UNCHANGED <<exIn, exOut>>

\* entering the fallback: the second client is open, client.get(final_url) in flight
EnterFallback(r, e) ==
  [st[r] EXCEPT !.pc = "fetching", !.e = Some(e), !.held = @ + 1,
                !.open = @ \cup {NewClient(r, 2)}, !.used = @ \cup {NewClient(r, 2)},
                !.calls.fetch = @ + 1]

\* variant: the fallback request is sent even though PostOut was built
StructuredReturnsAlsoFetches(r, p) ==
  /\ st[r].pc = "structured"
  /\ st' = [st EXCEPT ![r] =
              IF p.typed
              THEN [st[r] EXCEPT !.pc = "done", !.provided = Some(p),
                                 !.calls.fetch = @ + 1,
                                 !.resp = StructuredPost(Get(st[r].final_url), p)]
              ELSE [EnterFallback(r, ValidationMessage) EXCEPT !.provided = Some(p)]]
  /\ UNCHANGED <<exIn, exOut>>

\* variant: final_url is kept in a module-level variable that a concurrent
\* request overwrites
StructuredReturnsSharedUrl(r, p) ==
  /\ st[r].pc = "structured"
  /\ LET others == {x \in Reqs \ {r} : ~IsNone(st[x].final_url)}
         shared == IF others = {} THEN st[r].final_url
                   ELSE st[CHOOSE x \in others : TRUE].final_url
     IN st' = [st EXCEPT ![r] =
                 IF p.typed
                 THEN [st[r] EXCEPT !.pc = "done", !.provided = Some(p),
                                    !.resp = StructuredPost(Get(shared), p)]
                 ELSE [EnterFallback(r, ValidationMessage) EXCEPT !.provided = Some(p)]]
  /\ UNCHANGED <<exIn, exOut>>

\* the provider returned p: build PostOut, or fall back when PostOut rejects it
StructuredReturns(r, p) ==
  /\ st[r].pc = "structured"
  /\ st' = [st EXCEPT ![r] =
              IF p.typed
              THEN [st[r] EXCEPT !.pc = "done", !.provided = Some(p),
                                 !.resp = StructuredPost(Get(st[r].final_url), p)]
              ELSE [EnterFallback(r, ValidationMessage) EXCEPT !.provided = Some(p)]]
  /\ UNCHANGED <<exIn, exOut>>

\* Post(final_url), get_metadata() or get_content() raised
StructuredRaises(r, e) ==
  /\ st[r].pc = "structured"
  /\ st' = [st EXCEPT ![r] = EnterFallback(r, e)]
  /\ UNCHANGED <<exIn, exOut>>

\* variant: a failed fallback GET is sent again
FetchRaisesRetries(r, e2) ==
  /\ st[r].pc = "fetching"
  /\ st' = [st EXCEPT ![r] = [st[r] EXCEPT !.calls.fetch = @ + 1]]
  /\ UNCHANGED <<exIn, exOut>>

\* client.get(final_url) raised
FetchRaises(r, e2) ==
  /\ st[r].pc = "fetching"
  /\ st' = [st EXCEPT ![r] = [st[r] EXCEPT !.pc = "done", !.e2 = Some(e2), !.held = @ - 1,
                                       !.open = @ \ {NewClient(r, 2)},
                                       !.resp = CombinedFailure(Get(st[r].e), e2)]]
  /\ UNCHANGED <<exIn, exOut>>

\* client.get(final_url) returned f: raise_for_status, extract, build PostOut
FetchReturns(r, f) ==
  /\ st[r].pc = "fetching"
  /\ st' = [st EXCEPT ![r] =
              IF ~IsSuccess(f.status)
              THEN [st[r] EXCEPT !.pc = "done", !.e2 = Some(StatusMessage(f.status)),
                             !.fetched = Some(f), !.held = @ - 1, !.open = @ \ {NewClient(r, 2)},
                             !.resp = CombinedFailure(Get(st[r].e), StatusMessage(f.status))]
              ELSE IF ~f.parseable
              THEN [st[r] EXCEPT !.pc = "done", !.e2 = Some(ParserMessage),
                             !.fetched = Some(f), !.held = @ - 1, !.open = @ \ {NewClient(r, 2)},
                             !.calls.extract = @ + 1,
                             !.resp = CombinedFailure(Get(st[r].e), ParserMessage)]
              ELSE IF _readability_extract(f.body).raised
              THEN [st[r] EXCEPT !.pc = "done", !.e2 = Some(AttributeMessage),
                             !.fetched = Some(f), !.held = @ - 1, !.open = @ \ {NewClient(r, 2)},
                             !.calls.extract = @ + 1,
                             !.resp = CombinedFailure(Get(st[r].e), AttributeMessage)]
              ELSE [st[r] EXCEPT !.pc = "done", !.fetched = Some(f), !.held = @ - 1, !.open = @ \ {NewClient(r, 2)},
                             !.calls.extract = @ + 1,
                             !.resp = GenericPost(Get(st[r].final_url), f)]]
  /\ UNCHANGED <<exIn, exOut>>

Next ==
  \/ \E r \in Reqs, q \in {None, Some(<<>>), Some(<<"a", "&", "a">>)} : root(r, q)
  \/ \E r \in Reqs : healthz(r)
  \/ \E r \in Reqs : get_post_unvalidated(r)
  \/ \E r \in Reqs, url \in InputUrls : get_post(r, url)
  \/ \E r \in Reqs, final_url \in ResolvedUrls : NormalizeReturns(r, final_url, 200)
  \/ \E r \in Reqs, e \in NormalizeErrors : NormalizeRaises(r, e)
  \/ \E r \in Reqs, p \in ProviderResults : StructuredReturns(r, p)
  \/ \E r \in Reqs, e \in ProviderErrors : StructuredRaises(r, e)
  \/ \E r \in Reqs, e2 \in TransportErrors : FetchRaises(r, e2)
  \/ \E r \in Reqs, f \in FetchResults : FetchReturns(r, f)

Spec == Init /\ [][Next]_vars

-----------------------------------------------------------------------------
(* One /post request, the canonicalization GET answering with any status *)

NextSingle ==
  \/ \E url \in InputUrls : get_post(1, url)
  \/ \E final_url \in ResolvedUrls, status \in Statuses : NormalizeReturns(1, final_url, status)
  \/ \E e \in NormalizeErrors : NormalizeRaises(1, e)
  \/ \E p \in ProviderResults : StructuredReturns(1, p)
  \/ \E e \in ProviderErrors : StructuredRaises(1, e)
  \/ \E e2 \in TransportErrors : FetchRaises(1, e2)
  \/ \E f \in FetchResults : FetchReturns(1, f)

SpecSingle == Init /\ [][NextSingle]_vars

-----------------------------------------------------------------------------
(* The root endpoint over every short query value *)

QueryChars == {"a", " ", "&", "#", "+", "=", "%"}

QueryValues == SeqsUpTo(QueryChars, MaxQuery)

NextRoot == \E q \in {None} \cup {Some(x) : x \in QueryValues} : root(1, q)

SpecRoot == Init /\ [][NextRoot]_vars

-----------------------------------------------------------------------------
(* The heuristic extractor over every small document *)

TitleForms ==
  {<<>>,
   <<TextNode(<<" ">>)>>,
   <<TextNode(<<" ", "T", " ">>)>>,
   <<TextNode(<<"T">>)>>,
   <<TextNode(<<"T">>), TextNode(<<"T">>)>>}

Leaves ==
  {TextNode(<<"Hello">>), TextNode(<<"World">>), TextNode(<<" ">>), ImgNode(None), ImgNode(Some(<<>>)),
   ImgNode(Some(<<"/h.png">>)), ImgNode(Some(<<"/x.png">>))}

\* what an <article>, <main> or <div> of an enumerated document holds
KidLeaves == {TextNode(<<"Hello">>), TextNode(<<"World">>), ImgNode(Some(<<"/h.png">>))}

Containers == {Element(tag, kids) : tag \in {"article", "main", "div"}, kids \in SeqsUpTo(KidLeaves, MaxKids)}

Contents == SeqsUpTo(Leaves \cup Containers, MaxTop)

\* html.parser adds no <body>: a fragment has none, a page has one; a
\* <body> of leaves is enough for the region fallback to reach it
Pages == Contents \cup {<<Element("body", c)>> : c \in SeqsUpTo(Leaves, MaxTop)}

\* the pages of at most one node
Brief == SeqsUpTo(Leaves \cup Containers, 1) \cup {<<Element("body", c)>> : c \in SeqsUpTo(Leaves, 1)}

\* every page without a <title>, and every title form before a brief page
Docs == Pages \cup {<<Element("title", kids)>> \o body : kids \in TitleForms, body \in Brief}

InitExtract ==
  /\ st = [r \in Reqs |-> Idle]
  /\ exIn \in Docs
  /\ exOut = None

Extract ==
  /\ IsNone(exOut)
  /\ exOut' = Some(_readability_extract(exIn))
  /\ UNCHANGED <<st, exIn>>

NextExtract == Extract

SpecExtract == InitExtract /\ [][NextExtract]_vars

-----------------------------------------------------------------------------
(* Properties *)

\* sub occurs in s as a contiguous run of tokens
Infix(sub, s) ==
  \E i \in 0..Len(s) : i + Len(sub) <= Len(s) /\ SubSeq(s, i + 1, i + Len(sub)) = sub

SourceTags == {"substack_api", "generic-fetch"}

\* the response carries a PostOut record
HasPost(r) == st[r].resp.status = 200 /\ st[r].resp.source \in SourceTags

\* the response carries no field of a PostOut record
NoPost(r) ==
  /\ st[r].resp.source = ""
  /\ st[r].resp.url = <<>>
  /\ IsNone(st[r].resp.text)
  /\ IsNone(st[r].resp.html)
  /\ IsNone(st[r].resp.sha256)

\* the structured stage of r ran to its end without raising
StructuredSucceeded(r) ==
  /\ st[r].route = "/post"
  /\ ~IsNone(st[r].final_url)
  /\ st[r].calls.structured = 1
  /\ st[r].pc # "structured"
  /\ IsNone(st[r].e)

\* the structured stage of r raised
StructuredFailed(r) == st[r].route = "/post" /\ ~IsNone(st[r].e)

\* the fallback fetch of r returned a 2xx document the parser accepts
FetchedDocument(r) ==
  /\ ~IsNone(st[r].fetched)
  /\ IsSuccess(Get(st[r].fetched).status)
  /\ Get(st[r].fetched).parseable

\* the fallback stage of r ended in an exception: the GET raised, the status
\* was not 2xx, or the extraction raised
FallbackFailed(r) ==
  /\ st[r].pc = "done"
  /\ st[r].calls.fetch = 1
  /\ ~FetchedDocument(r)

\* C1: when canonicalization and the structured stage both succeed, the
\* request ends in a 200 response tagged with the structured source tag and
\* no fallback fetch is issued in that request.
C1_StructuredNeverFallsBack ==
  \A r \in Reqs :
    StructuredSucceeded(r) =>
      /\ st[r].pc = "done"
      /\ st[r].resp.status = 200
      /\ st[r].resp.source = "substack_api"
      /\ st[r].calls.fetch = 0
      /\ st[r].calls.extract = 0

C1_Witness ==
  \E r \in Reqs : StructuredSucceeded(r) /\ st[r].resp.status = 200 /\ st[r].held = 0

\* C2 (as claimed): every response with the structured source tag has a
\* populated, non-null author.
C2_AuthorPopulated ==
  \A r \in Reqs :
    (st[r].resp.status = 200 /\ st[r].resp.source = "substack_api") => Truthy(st[r].resp.author)

\* C2 (amended): every response with the structured source tag carries as
\* author exactly what the provider's metadata holds under "author", which is
\* null when the provider omits it.
C2_AuthorFromProvider ==
  \A r \in Reqs :
    (st[r].resp.status = 200 /\ st[r].resp.source = "substack_api") =>
      /\ ~IsNone(st[r].provided)
      /\ st[r].resp.author = Get(st[r].provided).author

C2_Witness ==
  \E r1, r2 \in Reqs :
    /\ st[r1].resp.source = "substack_api" /\ IsNone(st[r1].resp.author)
    /\ st[r2].resp.source = "substack_api" /\ st[r2].resp.author = Some(<<"Ann">>)

\* C3: when the structured stage raises and the fallback fetch returns a 2xx
\* HTML document, the response is 200 with the generic source tag, author
\* and published_at null, and publication the hostname of canonical_url.
C3_GenericRecord ==
  \A r \in Reqs :
    (st[r].pc = "done" /\ StructuredFailed(r) /\ FetchedDocument(r)) =>
      /\ st[r].resp.status = 200
      /\ st[r].resp.source = "generic-fetch"
      /\ IsNone(st[r].resp.author)
      /\ IsNone(st[r].resp.published_at)
      /\ ~IsNone(st[r].resp.canonical_url)
      /\ st[r].resp.publication = Hostname(Get(st[r].resp.canonical_url))

C3_Witness ==
  \E r \in Reqs :
    /\ st[r].pc = "done" /\ StructuredFailed(r) /\ FetchedDocument(r)
    /\ st[r].resp.canonical_url = Some(<<"https://", "blog.example", ":8443", "/p/one">>)
    /\ st[r].resp.publication = Some(<<"blog.example">>)

\* C4: when the structured stage fails and the fallback stage fails too, the
\* endpoint answers 502, produces no post record, and the detail contains
\* the message of the structured cause and the message of the fallback cause.
C4_BothCausesReported ==
  \A r \in Reqs :
    (StructuredFailed(r) /\ FallbackFailed(r)) =>
      /\ st[r].resp.status = 502
      /\ NoPost(r)
      /\ ~IsNone(st[r].e2)
      /\ Infix(Get(st[r].e), st[r].resp.detail)
      /\ Infix(Get(st[r].e2), st[r].resp.detail)

C4_Witness ==
  \E r \in Reqs :
    /\ StructuredFailed(r) /\ FallbackFailed(r)
    /\ Get(st[r].e) = <<"Invalid Substack URL">>
    /\ Get(st[r].e2) = ParserMessage

\* C5: when the canonicalization GET raises, the request ends at once with
\* 502: the structured stage and the fallback fetch are never invoked and
\* no post record is returned.
C5_NormalizeFailureIsFatal ==
  \A r \in Reqs :
    ~IsNone(st[r].ne) =>
      /\ st[r].pc = "done"
      /\ st[r].resp.status = 502
      /\ st[r].calls.structured = 0
      /\ st[r].calls.fetch = 0
      /\ st[r].calls.extract = 0
      /\ NoPost(r)

C5_Witness ==
  \E r \in Reqs : ~IsNone(st[r].ne) /\ st[r].calls.canon = 1 /\ st[r].resp.status = 502

\* C6 (as claimed): every 502 response, from canonicalization or from an
\* exhausted fallback, carries a detail embedding both the structured-stage
\* cause and the fallback-stage cause.
C6_Every502HasBothCauses ==
  \A r \in Reqs :
    st[r].resp.status = 502 =>
      /\ ~IsNone(st[r].e) /\ Infix(Get(st[r].e), st[r].resp.detail)
      /\ ~IsNone(st[r].e2) /\ Infix(Get(st[r].e2), st[r].resp.detail)

\* C6 (amended): a 502 from an exhausted fallback carries a detail embedding
\* both the structured-stage cause and the fallback-stage cause; a 502 from
\* canonicalization carries only "URL normalize failed: " followed by the
\* canonicalization cause, no later stage having run.
C6_DetailByOrigin ==
  \A r \in Reqs :
    st[r].resp.status = 502 =>
      IF ~IsNone(st[r].ne)
      THEN /\ st[r].resp.detail = <<"URL normalize failed: ">> \o Get(st[r].ne)
           /\ IsNone(st[r].e)
           /\ IsNone(st[r].e2)
      ELSE /\ ~IsNone(st[r].e) /\ ~IsNone(st[r].e2)
           /\ st[r].resp.detail =
                <<"substack_api failed: ">> \o Get(st[r].e)
                  \o <<"; fallback fetch failed: ">> \o Get(st[r].e2)

C6_Witness ==
  \E r1, r2 \in Reqs :
    /\ st[r1].resp.status = 502 /\ ~IsNone(st[r1].ne)
    /\ st[r2].resp.status = 502 /\ ~IsNone(st[r2].e2)

\* C7: in every terminal state that produced a post record, source is one of
\* the two tags; the structured tag implies the structured stage was invoked
\* and did not raise; the generic tag implies the structured stage was
\* invoked and failed and the fallback fetch and extraction succeeded.
C7_SourceTagProvenance ==
  \A r \in Reqs :
    (st[r].pc = "done" /\ st[r].route = "/post" /\ st[r].resp.status = 200) =>
      /\ st[r].resp.source \in SourceTags
      /\ st[r].resp.source = "substack_api" =>
           /\ st[r].calls.structured = 1
           /\ IsNone(st[r].e)
           /\ ~IsNone(st[r].provided)
           /\ st[r].calls.fetch = 0
      /\ st[r].resp.source = "generic-fetch" =>
           /\ st[r].calls.structured = 1
           /\ ~IsNone(st[r].e)
           /\ st[r].calls.fetch = 1
           /\ FetchedDocument(r)
           /\ st[r].calls.extract = 1
           /\ IsNone(st[r].e2)

C7_Witness ==
  \E r1, r2 \in Reqs :
    /\ st[r1].pc = "done" /\ st[r1].resp.source = "substack_api"
    /\ st[r2].pc = "done" /\ st[r2].resp.source = "generic-fetch"

\* C8: in successful /post responses sha256 is absent exactly when text is
\* null or empty; otherwise it depends on text alone: across any two
\* responses (either path, any URL) equal text gives equal sha256 and
\* different text gives different sha256.
C8_HashOfTextAlone ==
  \A r1, r2 \in Reqs :
    (HasPost(r1) /\ HasPost(r2)) =>
      /\ IsNone(st[r1].resp.sha256) <=> ~Truthy(st[r1].resp.text)
      /\ st[r1].resp.text = st[r2].resp.text => st[r1].resp.sha256 = st[r2].resp.sha256
      /\ (Truthy(st[r1].resp.text) /\ Truthy(st[r2].resp.text)
            /\ st[r1].resp.text # st[r2].resp.text)
           => st[r1].resp.sha256 # st[r2].resp.sha256

C8_Witness ==
  \E r1, r2 \in Reqs :
    /\ st[r1].resp.source = "substack_api" /\ st[r2].resp.source = "generic-fetch"
    /\ st[r1].resp.url # st[r2].resp.url
    /\ st[r1].resp.text = Some(<<"Hello">>)
    /\ st[r2].resp.text = Some(<<"Hello">>)
    /\ Truthy(st[r1].resp.sha256)

\* C9: for every value X, the root endpoint called with url=X answers with a
\* redirect whose target path is /post and whose url parameter, as /post
\* receives it, equals X; called without url it returns the descriptor.
C9_RootForwardsUrl ==
  \A r \in Reqs :
    (st[r].pc = "done" /\ st[r].route = "/") =>
      IF IsNone(st[r].url)
      THEN st[r].resp = Descriptor
      ELSE /\ st[r].resp.status = 307
           /\ TargetPath(st[r].resp.location) = <<"/post">>
           /\ ForwardedUrl(st[r].resp.location) = st[r].url

\* C10: the extractor's title is the trimmed text of <title> when a <title>
\* is present and its trimmed text is non-empty, and null in every other
\* case, never an empty string.
C10_TitleTrimmedOrNull ==
  ~IsNone(exOut) =>
    LET t == Find(exIn, "title")
        trimmed == IF IsNone(t) THEN <<>> ELSE Strip(TitleText(Get(t)))
    IN IF trimmed # <<>>
       THEN Get(exOut).title = Some(trimmed)
       ELSE IsNone(Get(exOut).title)

\* the children of the region the extractor reads, chosen by priority:
\* first <article>, else first <main>, else <body>, else the whole document
RegionOf(doc) ==
  IF ~IsNone(Find(doc, "article")) THEN Get(Find(doc, "article")).kids
  ELSE IF ~IsNone(Find(doc, "main")) THEN Get(Find(doc, "main")).kids
  ELSE IF ~IsNone(Find(doc, "body")) THEN Get(Find(doc, "body")).kids
  ELSE doc

\* the <img> the hero image is read from: the first one inside an
\* <article>/<main>/<body> region, else the first one of the document
SelectedImg(doc) ==
  LET inner == IF IsNone(ContentRegion(doc)) THEN None ELSE Find(RegionOf(doc), "img")
  IN IF ~IsNone(inner) THEN inner ELSE Find(doc, "img")

\* C11 (as claimed): the hero image is the src of the first <img> of the
\* content region, else the src of the first <img> of the document, and it
\* is absent only when the document has no <img> at all.
C11_HeroAbsentOnlyWithoutImg ==
  ~IsNone(exOut) =>
    /\ ~IsNone(SelectedImg(exIn)) /\ Truthy(Get(SelectedImg(exIn)).src)
         => Get(exOut).hero = Get(SelectedImg(exIn)).src
    /\ IsNone(Get(exOut).hero) => IsNone(Find(exIn, "img"))

\* C11 (amended): the hero image is the src of the first <img> of the
\* content region, else of the first <img> of the document, when that one
\* <img> has a non-empty src; it is absent when no <img> exists or when
\* that <img> has no src or an empty one (no later <img> is consulted).
C11_HeroFromSelectedImg ==
  ~IsNone(exOut) =>
    IF ~IsNone(SelectedImg(exIn)) /\ Truthy(Get(SelectedImg(exIn)).src)
    THEN Get(exOut).hero = Get(SelectedImg(exIn)).src
    ELSE IsNone(Get(exOut).hero)

C11_Witness ==
  /\ ~IsNone(exOut)
  /\ IsNone(Get(exOut).hero)
  /\ ~IsNone(ContentRegion(exIn))
  /\ ~IsNone(Find(RegionOf(exIn), "img"))
  /\ \E i \in DOMAIN Preorder(exIn) :
       Preorder(exIn)[i].tag = "img" /\ Truthy(Preorder(exIn)[i].src)

\* the word tokens of the text nodes of a forest
WordsIn(forest) ==
  UNION {{Preorder(forest)[i].str[j] : j \in DOMAIN Preorder(forest)[i].str} :
           i \in {k \in DOMAIN Preorder(forest) : Preorder(forest)[k].tag = "#text"}}

\* C12: the content region is the first available of <article>, <main>,
\* <body>, the whole document; the returned text is exactly that region's
\* text (stripped strings joined by newlines), so no text from outside a
\* present <article> or <main> appears in it.
C12_TextOfRegion ==
  ~IsNone(exOut) =>
    /\ Get(exOut).text = GetText(RegionOf(exIn))
    /\ \A j \in DOMAIN Get(exOut).text :
         Get(exOut).text[j] \in WordsIn(RegionOf(exIn)) \cup {"\n"}
    /\ Get(exOut).text = Strip(Get(exOut).text)

C12_Witness ==
  /\ ~IsNone(exOut)
  /\ ~IsNone(Find(exIn, "article"))
  /\ ~IsNone(Find(exIn, "main"))
  /\ "World" \in WordsIn(exIn)
  /\ Get(exOut).text = <<"Hello">>

\* C13: the extractor never raises on parseable HTML, whatever combination
\* of <title>, <article>, <main>, <body> and <img> is present (an <img>
\* without src and a <title> without a single text child included); with no
\* <article>, <main> or <img> anywhere it reads the body, else the whole
\* document, and gives a text and a null hero image.
C13_ExtractorNeverRaises ==
  ~IsNone(exOut) =>
    /\ ~Get(exOut).raised
    /\ (IsNone(Find(exIn, "article")) /\ IsNone(Find(exIn, "main")) /\ IsNone(Find(exIn, "img")))
         => /\ IsNone(Get(exOut).hero)
            /\ Get(exOut).text =
                 GetText(IF IsNone(Find(exIn, "body")) THEN exIn
                         ELSE Get(Find(exIn, "body")).kids)

C13_Witness ==
  /\ ~IsNone(exOut)
  /\ ~Get(exOut).raised
  /\ IsNone(Find(exIn, "article")) /\ IsNone(Find(exIn, "main")) /\ IsNone(Find(exIn, "img"))
  /\ ~IsNone(Find(exIn, "title")) /\ Len(Get(Find(exIn, "title")).kids) = 2
  /\ IsNone(Find(exIn, "body"))
  /\ Get(exOut).text = <<"T", "\n", "T", "\n", "Hello">>

\* C14: a /post request without the url parameter ends in 422 and never
\* reaches the canonicalizer: no GET, no structured extraction, no fallback.
C14_MissingUrlRejected ==
  \A r \in Reqs :
    (st[r].route = "/post" /\ IsNone(st[r].url)) =>
      /\ st[r].pc = "done"
      /\ st[r].resp.status = 422
      /\ st[r].calls = NoCalls
      /\ st[r].held = 0
      /\ NoPost(r)

C14_Witness ==
  \E r \in Reqs : st[r].route = "/post" /\ IsNone(st[r].url) /\ st[r].resp.status = 422

\* C15: within one run of get_post the stages are sequential and never
\* repeated: the canonicalization GET is issued exactly once and first; the
\* structured stage at most once and only after canonicalization succeeded;
\* the fallback fetch at most once and only after the structured stage
\* failed; the extractor at most once and only after a 2xx fallback response.
C15_StagesOnceInOrder ==
  \A r \in Reqs :
    (st[r].route = "/post" /\ ~IsNone(st[r].url)) =>
      /\ st[r].calls.canon = 1
      /\ st[r].calls.structured <= 1
      /\ st[r].calls.structured = 1 => (~IsNone(st[r].final_url) /\ IsNone(st[r].ne))
      /\ st[r].calls.fetch <= 1
      /\ st[r].calls.fetch = 1 => (st[r].calls.structured = 1 /\ ~IsNone(st[r].e))
      /\ st[r].calls.extract <= 1
      /\ st[r].calls.extract = 1 =>
           /\ st[r].calls.fetch = 1
           /\ ~IsNone(st[r].fetched)
           /\ IsSuccess(Get(st[r].fetched).status)
      /\ st[r].pc = "canonicalizing" => (st[r].calls.structured = 0 /\ st[r].calls.fetch = 0)
      /\ st[r].pc = "structured" => (st[r].calls.fetch = 0 /\ st[r].calls.extract = 0)
      /\ st[r].pc = "fetching" => st[r].calls.extract = 0

C15_Witness ==
  \E r \in Reqs :
    /\ st[r].pc = "done"
    /\ st[r].calls = [canon |-> 1, structured |-> 1, fetch |-> 1, extract |-> 1]
    /\ st[r].resp.status = 200

\* C16: HTTP clients are scoped to the request: each client a request opens
\* is closed before the request ends, on every path; a request never holds
\* more than one client at a time; no client is used by two requests.
C16_ClientsRequestScoped ==
  \A r \in Reqs :
    /\ Cardinality(st[r].open) <= 1
    /\ st[r].held = Cardinality(st[r].open)
    /\ st[r].open \subseteq st[r].used
    /\ st[r].pc \in {"idle", "structured", "done"} => st[r].open = {}
    /\ \A r2 \in Reqs \ {r} : st[r].used \cap st[r2].used = {}

C16_Witness ==
  \E r1, r2 \in Reqs :
    /\ st[r1].pc = "done" /\ Cardinality(st[r1].used) = 2 /\ st[r1].resp.status = 502
    /\ st[r1].open = {}
    /\ st[r2].pc = "done" /\ Cardinality(st[r2].used) = 1 /\ st[r2].resp.status = 502
    /\ st[r2].open = {}

\* C18: in every successful /post response url is the canonicalizer's final
\* URL, not the raw input, and canonical_url is never null: on the
\* structured path the provider's canonical_url when it gives one, else the
\* final URL; on the generic path the URL the fallback request ended at.
C18_UrlAndCanonicalUrl ==
  \A r \in Reqs :
    HasPost(r) =>
      /\ Some(st[r].resp.url) = st[r].final_url
      /\ ~IsNone(st[r].resp.canonical_url)
      /\ st[r].resp.source = "substack_api" =>
           st[r].resp.canonical_url =
             IF IsNone(Get(st[r].provided).canonical_url)
                  \/ Get(Get(st[r].provided).canonical_url) = <<>>
             THEN st[r].final_url
             ELSE Get(st[r].provided).canonical_url
      /\ st[r].resp.source = "generic-fetch" =>
           st[r].resp.canonical_url = Some(Get(st[r].fetched).url)

C18_Witness ==
  \E r1, r2 \in Reqs :
    /\ HasPost(r1) /\ st[r1].resp.source = "substack_api"
    /\ Some(st[r1].resp.url) # st[r1].url
    /\ IsNone(Get(st[r1].provided).canonical_url)
    /\ st[r1].resp.canonical_url = st[r1].final_url
    /\ HasPost(r2) /\ st[r2].resp.source = "generic-fetch"
    /\ st[r2].resp.canonical_url # st[r2].final_url

\* the structured-stage cause of a request, from what the provider did
OwnStructuredCause(s) ==
  IF ~IsNone(s.provided) THEN ValidationMessage ELSE Get(s.e)

\* the fallback-stage cause of a request, from what the fallback GET did
OwnFallbackCause(s) ==
  IF IsNone(s.fetched) THEN Get(s.e2)
  ELSE IF ~IsSuccess(Get(s.fetched).status) THEN StatusMessage(Get(s.fetched).status)
  ELSE ParserMessage

\* the response of a request handled alone, as a function of its route, its
\* url parameter and the outcomes of its own collaborators
AloneResponse(s) ==
  IF s.route = "/" THEN (IF Truthy(s.url) THEN RedirectResponse(Get(s.url)) ELSE Descriptor)
  ELSE IF s.route = "/healthz" THEN Healthy
  ELSE IF IsNone(s.url) THEN ValidationFailure
  ELSE IF ~IsNone(s.ne) THEN NormalizeFailure(Get(s.ne))
  ELSE IF ~IsNone(s.provided) /\ Get(s.provided).typed
       THEN StructuredPost(Get(s.final_url), Get(s.provided))
  ELSE IF ~IsNone(s.fetched) /\ IsSuccess(Get(s.fetched).status) /\ Get(s.fetched).parseable
       THEN GenericPost(Get(s.final_url), Get(s.fetched))
  ELSE CombinedFailure(OwnStructuredCause(s), OwnFallbackCause(s))

\* C17: requests share no mutable state: under every interleaving of /post,
\* / and /healthz requests, the response of each request is the one it gives
\* alone with the same outcomes of its own canonicalizer, provider and
\* fallback fetch.
C17_ResponseOfOwnOutcomes ==
  \A r \in Reqs : st[r].pc = "done" => st[r].resp = AloneResponse(st[r])

C17_Witness ==
  \E r1, r2 \in Reqs :
    /\ st[r1].pc = "done" /\ st[r1].resp.source = "substack_api"
    /\ st[r2].pc = "done" /\ st[r2].resp.source = "generic-fetch"
    /\ st[r1].final_url # st[r2].final_url
    /\ st[r1].resp = AloneResponse(st[r1])
    /\ st[r2].resp = AloneResponse(st[r2])

\* C19: canonicalization fails only when the GET raises and does not look
\* at the status: after a non-2xx answer the request still goes on to the
\* structured stage, while a non-2xx answer to the fallback GET is a fallback
\* failure; so a URL answering non-2xx that the provider rejects ends in the
\* combined two-cause 502, not in the canonicalization 502.
C19_StatusIgnoredByNormalize ==
  \A r \in Reqs :
    /\ ~IsNone(st[r].ne) => st[r].head_status = 0
    /\ (st[r].head_status # 0 /\ ~IsSuccess(st[r].head_status)) =>
         /\ IsNone(st[r].ne)
         /\ ~IsNone(st[r].final_url)
         /\ st[r].calls.structured = 1
    /\ (st[r].pc = "done" /\ ~IsNone(st[r].fetched) /\ ~IsSuccess(Get(st[r].fetched).status)) =>
         /\ st[r].resp.status = 502
         /\ ~IsNone(st[r].e)
         /\ st[r].resp.detail =
              <<"substack_api failed: ">> \o Get(st[r].e) \o <<"; fallback fetch failed: ">>
                \o StatusMessage(Get(st[r].fetched).status)
         /\ ~Infix(<<"URL normalize failed: ">>, st[r].resp.detail)

C19_Witness ==
  \E r \in Reqs :
    /\ st[r].pc = "done"
    /\ st[r].head_status = 404
    /\ st[r].e = Some(<<"Invalid Substack URL">>)
    /\ ~IsNone(st[r].fetched) /\ Get(st[r].fetched).status = 404
    /\ st[r].resp.status = 502

====
